---- MODULE Spec2Model ----
(***************************************************************************)
(* Model of src/src/matrixHttpApi.ts: the module state (config, since, the *)
(* three callback slots, botUserId, running, seen), the initAsync calls,   *)
(* the background sync loops with their await points, the event filter     *)
(* (processEventsAsync), the dedup window (seen + evictOldSeen), stop(),   *)
(* the signal handlers (shutdownAsync), the callback setters and           *)
(* sendMessageAsync.                                                       *)
(*                                                                         *)
(* The homeserver is the environment.  It keeps the target room's timeline *)
(* and answers a sync request with the events that follow the request's    *)
(* cursor; a cursor is a position in the timeline.  Of a SyncResponse      *)
(* every field is optional (src/src/matrixHttpApi.ts:20-26), so next_batch *)
(* may be missing from an answer.                                          *)
(*                                                                         *)
(* One action is one run of the program between two await points: code     *)
(* that runs without awaiting is never split over two actions.             *)
(***************************************************************************)
EXTENDS Integers, Sequences, FiniteSets, TLC

\* ------------------------------------------------------------------ bounds

\* Events the room's timeline holds at most.
MaxTimeline == 2
\* The dedup capacity the model runs with (the source's value is 1000).
MaxSeenModel == 1
\* Failures (a failed poll or join, a callback that throws) in one run.
MaxFailures == 1
\* Rooms a sync response invites the bot to, at most.
MaxInvites == 2
\* Calls of initAsync in one process, at most.
MaxCalls == 2
\* Signals (SIGTERM, SIGINT) delivered to the process, at most.
MaxSignals == 1

\* --------------------------------------------------------------- constants

\* const MAX_SEEN = 1000, scaled to the model's capacity.
MAX_SEEN == MaxSeenModel

\* null / undefined / a missing field.
NULL == "null"

\* The configured room, and another room the bot has joined.
TargetRoom == "!target:x"
OtherRoom == "!other:x"

Bot == "@bot:x"
Human == "@human:x"
Other == "@other:x"

\* Strings the program inspects character by character are sequences of
\* one-character strings.
HI == <<"h", "i">>
EXIT == <<"e", "x", "i", "t">>
EXIT_UPPER == <<"E", "X", "I", "T">>
EXIT_MIXED == <<"E", "x", "i", "t">>

\* A missing content.body (bodies are sequences, so is the missing one).
NO_BODY == <<"undefined">>

\* JavaScript truthiness of an optional string: undefined and "" are falsy.
Truthy(v) == v # NULL /\ v # ""

\* The same for a body.
TruthyBody(b) == b # NO_BODY /\ b # <<>>

\* String.prototype.toLowerCase, on the letters the model uses.
LowerChar(c) ==
    CASE c = "E" -> "e"
      [] c = "X" -> "x"
      [] c = "I" -> "i"
      [] c = "T" -> "t"
      [] c = "H" -> "h"
      [] OTHER -> c

toLowerCase(s) == [i \in 1..Len(s) |-> LowerChar(s[i])]

\* ------------------------------------------------------------------ events

\* type MatrixEvent: event_id, type, sender, content.msgtype, content.body.
MatrixEvent(id, type, sender, msgtype, body) ==
    [event_id |-> id, type |-> type, sender |-> sender,
     msgtype |-> msgtype, body |-> body]

\* What can be posted to the room (the event identifier is given by the
\* server: the event's position in the timeline; one shape has none).
Shapes ==
    { [type |-> "m.room.message", sender |-> Human, msgtype |-> "m.text", body |-> HI, hasId |-> TRUE],
      [type |-> "m.room.message", sender |-> Human, msgtype |-> "m.text", body |-> EXIT_MIXED, hasId |-> TRUE],
      [type |-> "m.room.message", sender |-> Other, msgtype |-> "m.text", body |-> EXIT, hasId |-> TRUE] }

\* Identifiers and cursors are opaque strings; the server derives both from
\* positions in the timeline.
EventIdOf(k) == <<"$e1", "$e2", "$e3", "$e4", "$e5", "$e6", "$e7", "$e8", "$e9">>[k]
TokenOf(k) == <<"s0", "s1", "s2", "s3", "s4", "s5", "s6", "s7", "s8", "s9">>[k + 1]
PositionOf(t) == CHOOSE k \in 0..MaxTimeline : TokenOf(k) = t
\* The identifier of the event of the other room.
OtherEventId == "$o1"
EventIds == {EventIdOf(k) : k \in 1..MaxTimeline} \cup {OtherEventId}

NO_EVENT == MatrixEvent(NULL, NULL, NULL, NULL, NO_BODY)

\* ------------------------------------------------------------------- state

VARIABLES
    \* module state of matrixHttpApi.ts
    config, since, messageCallback, errorCallback, exitCallback, botUserId,
    running, seen,
    \* the initAsync calls and the loop tasks: where each is suspended
    initPc, loop,
    \* the shutdownAsync tasks suspended in await exitCallback()
    shutdowns,
    \* the homeserver: the target room's timeline
    timeline,
    \* failures injected and signals delivered so far
    failures, signals,
    \* history (read by the properties only)
    errCalls, errArg, failure, lastDispatch, othersSince, lastInsert,
    dupSkipped, afterExit, bootEvents, lastNext, exitDetected, exitCalls,
    latest, invoked, joined, pollOrder, overtaken

moduleVars == <<config, since, messageCallback, errorCallback, exitCallback,
                botUserId, running, seen>>
\* The history the event filter writes, and the rest of it.
dispatchHist == <<lastDispatch, othersSince, lastInsert, dupSkipped, afterExit,
                  exitDetected>>
otherHist == <<errCalls, errArg, failure, bootEvents, lastNext, joined, exitCalls,
               pollOrder, overtaken>>
histVars == <<dispatchHist, otherHist, latest, invoked>>
vars == <<moduleVars, initPc, loop, shutdowns, timeline, failures, signals, histVars>>

\* The calls of initAsync; the loop task a call starts has the call's number.
Calls == 1..MaxCalls

\* let config: MatrixClientConfig | null = null
NO_CONFIG == [roomId |-> NULL, humanUserId |-> NULL, onHumanMessage |-> NULL,
              onError |-> NULL, onExit |-> NULL]

\* The configurations initAsync is called with.
Configs ==
    [roomId : {TargetRoom},
     humanUserId : {Human},
     onHumanMessage : {"cfg.onHumanMessage"},
     onError : {NULL, "cfg.onError"},
     onExit : {NULL, "cfg.onExit"}]

NO_FAILURE == [err |-> "none", cursor |-> NULL]
NO_DISPATCH == [kind |-> "none", ev |-> NO_EVENT, gap |-> -1]
NO_INSERT == [before |-> <<>>, ev |-> NO_EVENT]

\* The callback registered last for each slot (by initAsync's configuration
\* or by a setter), and the last invocation of a callback: its slot, the
\* callback invoked and the one that was registered last for the slot then.
NO_CALLBACKS == [message |-> NULL, error |-> NULL, exit |-> NULL]
NO_INVOCATION == [slot |-> "none", cb |-> NULL, latest |-> NULL]
Invocation(slot, cb) == [slot |-> slot, cb |-> cb, latest |-> latest[slot]]

\* ------------------------------------------------------------ dedup window

\* seen.has(id); seen is kept in insertion order, as a JavaScript Set is.
Has(s, id) == \E i \in 1..Len(s) : s[i] = id

\* seen.add(id)
SeenAdd(s, id) == IF Has(s, id) THEN s ELSE Append(s, id)

\* A variant that deletes the newest entries instead of the oldest.
EvictNewest(s, count, toDelete) == SubSeq(s, 1, Len(s) - toDelete)

\* for (const id of seen) { if (count++ >= toDelete) break; seen.delete(id); }
RECURSIVE EvictLoop(_, _, _)
EvictLoop(s, count, toDelete) ==
    IF s = <<>> \/ count >= toDelete
    THEN s
    ELSE EvictLoop(Tail(s), count + 1, toDelete)

\* A variant that keeps one entry fewer than MAX_SEEN.
EvictOneTooMany(s) ==
    IF Len(s) > MAX_SEEN - 1
    THEN EvictLoop(s, 0, Len(s) - (MAX_SEEN - 1))
    ELSE s

evictOldSeen(s) ==
    IF Len(s) > MAX_SEEN
    THEN EvictLoop(s, 0, Len(s) - MAX_SEEN)
    ELSE s

\* ------------------------------------------------------------ event filter

Min(a, b) == IF a < b THEN a ELSE b

\* seen.add(eventId); evictOldSeen();  -- with the history of the insert.
\* st.others[x] counts the other identifiers recorded since x was last
\* dispatched (-1: never dispatched), up to MAX_SEEN + 1.
RecordSeen(st, ev) ==
    [seen |-> evictOldSeen(SeenAdd(st.seen, ev.event_id)),
     others |-> [x \in DOMAIN st.others |->
                    IF x # ev.event_id /\ st.others[x] >= 0
                    THEN Min(st.others[x] + 1, MAX_SEEN + 1)
                    ELSE st.others[x]],
     lastInsert |-> [before |-> st.seen, ev |-> ev],
     dup |-> st.dup]

\* An event that is skipped: st.dup tells whether an identifier that was
\* dispatched before has been skipped as seen.
Skip(st, ev) ==
    IF Truthy(ev.event_id) /\ st.others[ev.event_id] >= 0
    THEN [st EXCEPT !.dup = TRUE]
    ELSE st

\* if (!eventId || seen.has(eventId)) continue;
IsNewEvent(ev, s) == Truthy(ev.event_id) /\ ~Has(s, ev.event_id)

\* if (ev.type !== "m.room.message") continue;
\* if (ev.content?.msgtype !== "m.text") continue;
\* if (!sender || !body) continue;
IsTextMessage(ev) ==
    /\ ev.type = "m.room.message"
    /\ ev.msgtype = "m.text"
    /\ Truthy(ev.sender)
    /\ TruthyBody(ev.body)

\* A variant without the self-echo test.
NeverSelfEcho(ev) == FALSE

\* if (sender === botUserId) continue;
IsSelfEcho(ev) == ev.sender = botUserId

\* A variant that accepts every sender.
AnySender(ev) == TRUE

\* if (sender === config.humanUserId)
IsFromHuman(ev) == ev.sender = config.humanUserId

\* A variant that compares the body as it is.
IsExitCaseSensitive(body) == body = EXIT

\* if (body.toLowerCase() === "exit")
IsExitCommand(body) == toLowerCase(body) = EXIT

\* The for loop of processEventsAsync from its current event up to its next
\* await (or its end): the result names the event it stops at, "exit" for
\* await handleExitAsync(), "msg" for await messageCallback(body, sender),
\* and the events after it.
RECURSIVE Filter(_, _)
Filter(events, st) ==
    IF events = <<>>
    THEN [outcome |-> "done", ev |-> NO_EVENT, rest |-> <<>>, st |-> st]
    ELSE LET ev == Head(events)
             rest == Tail(events)
         IN  IF ~IsNewEvent(ev, st.seen)
             THEN Filter(rest, Skip(st, ev))
             ELSE LET st1 == RecordSeen(st, ev)
                  IN  IF ~IsTextMessage(ev) THEN Filter(rest, st1)
                      ELSE IF IsSelfEcho(ev) THEN Filter(rest, st1)
                      ELSE IF ~IsFromHuman(ev) THEN Filter(rest, st1)
                      ELSE IF IsExitCommand(ev.body)
                           THEN [outcome |-> "exit", ev |-> ev, rest |-> rest, st |-> st1]
                      ELSE IF messageCallback # NULL
                           THEN [outcome |-> "msg", ev |-> ev, rest |-> rest, st |-> st1]
                      ELSE Filter(rest, st1)

\* if (!config || !botUserId) return;
FilterGuard == config # NO_CONFIG /\ Truthy(botUserId)

\* The identifiers of a sequence of events.
IdsOf(events) == {events[i].event_id : i \in 1..Len(events)} \ {NULL}

\* --------------------------------------------------------------- homeserver

\* The events a sync request with this cursor is answered with: those after
\* the cursor's position, all of them for a request without cursor.
EventsAfter(cursor) ==
    IF cursor = NULL
    THEN timeline
    ELSE SubSeq(timeline, PositionOf(cursor) + 1, Len(timeline))

\* What the other room's timeline shows in an answer that carries it: a text
\* message of the configured human.
OtherTimeline == <<MatrixEvent(OtherEventId, "m.room.message", Human, "m.text", HI)>>

\* rooms.join of an answer without rooms.
NO_ROOMS == [r \in {} |-> <<>>]

\* type SyncResponse: the answer to a sync request with this cursor.  A room
\* is listed under rooms.join when it has events to show: the target room
\* with the events after the cursor, another room (others) with its own.
SyncResponse(cursor, next_batch, n, others) ==
    [next_batch |-> next_batch,
     invite |-> n,
     join |-> [r \in (IF EventsAfter(cursor) # <<>> THEN {TargetRoom} ELSE {})
                        \cup (IF others THEN {OtherRoom} ELSE {}) |->
                 IF r = TargetRoom THEN EventsAfter(cursor) ELSE OtherTimeline]]

\* A variant that takes the events of every joined room.
AllRoomsEvents(s, roomId) ==
    (IF roomId \in DOMAIN s.join THEN s.join[roomId] ELSE <<>>)
        \o (IF OtherRoom \in DOMAIN s.join THEN s.join[OtherRoom] ELSE <<>>)

\* const room = s.rooms?.join?.[config.roomId];
\* const events = room?.timeline?.events ?? [];
RoomEvents(s, roomId) == IF roomId \in DOMAIN s.join THEN s.join[roomId] ELSE <<>>

\* The next_batch values an answer may carry now: the token of the timeline's
\* end, or none (next_batch?: string).
NextBatches == {TokenOf(Len(timeline)), NULL}

\* Somebody posts an event to the room.
Send(shape) ==
    /\ \/ \A c \in Calls : initPc[c] = "idle"
       \/ \E c \in Calls : initPc[c] = "boot"
       \/ \E c \in Calls : loop[c].pc = "sync"
    /\ Len(timeline) < MaxTimeline
    /\ timeline' = Append(timeline,
                          MatrixEvent(IF shape.hasId THEN EventIdOf(Len(timeline) + 1) ELSE NULL,
                                      shape.type, shape.sender, shape.msgtype, shape.body))
    /\ UNCHANGED <<moduleVars, initPc, loop, shutdowns, failures, signals, histVars>>

\* ---------------------------------------------------------------- the loop

LoopAt(pc) == [pc |-> pc, cursor |-> NULL, invites |-> 0, events |-> <<>>]

\* if (sinceToken) params.set("since", sinceToken);
SinceParam(token) == IF Truthy(token) THEN token ELSE NULL

\* A variant that does not test the flag.
WhileTrue(isRunning, token) == [LoopAt("sync") EXCEPT !.cursor = SinceParam(token)]

\* while (running) { ... const s = await syncOnceAsync(since, 30000);
\* the loop's state after the test: suspended in the poll, or ended.
WhileRunning(isRunning, token) ==
    IF isRunning
    THEN [LoopAt("sync") EXCEPT !.cursor = SinceParam(token)]
    ELSE LoopAt("ended")

\* A variant that never adopts the answer's cursor.
AdoptNever(token, next_batch) == token

\* if (s.next_batch) { since = s.next_batch; }
AdoptCursor(token, next_batch) == IF Truthy(next_batch) THEN next_batch ELSE token

\* await processEventsAsync(events), up to its next await.  Sets loop, seen,
\* running and the history of dispatches, inserts and invocations.
ProcessEvents(t, events) ==
    IF ~FilterGuard
    THEN /\ loop' = [loop EXCEPT ![t] = LoopAt("top")]
         /\ UNCHANGED <<seen, running, dispatchHist, exitCalls, invoked>>
    ELSE LET r == Filter(events, [seen |-> seen, others |-> othersSince,
                                  lastInsert |-> lastInsert, dup |-> dupSkipped])
             id == r.ev.event_id
         IN  /\ seen' = r.st.seen
             /\ lastInsert' = r.st.lastInsert
             /\ dupSkipped' = r.st.dup
             /\ IF r.outcome = "done"
                THEN /\ loop' = [loop EXCEPT ![t] = LoopAt("top")]
                     /\ othersSince' = r.st.others
                     /\ UNCHANGED <<running, lastDispatch, afterExit, exitDetected,
                                    exitCalls, invoked>>
                ELSE /\ lastDispatch' = [kind |-> r.outcome, ev |-> r.ev,
                                         gap |-> r.st.others[id]]
                     /\ othersSince' = [r.st.others EXCEPT ![id] = 0]
                     /\ IF r.outcome = "msg"
                        THEN \* await messageCallback(body, sender);
                             /\ loop' = [loop EXCEPT ![t] = [LoopAt("msgcb") EXCEPT
                                                                !.events = r.rest]]
                             /\ invoked' = Invocation("message", messageCallback)
                             /\ UNCHANGED <<running, afterExit, exitDetected, exitCalls>>
                        ELSE \* await handleExitAsync(); return;
                             /\ exitDetected' = TRUE
                             /\ afterExit' = afterExit \cup IdsOf(r.rest)
                             /\ IF exitCallback # NULL
                                THEN /\ loop' = [loop EXCEPT ![t] = LoopAt("exitcb")]
                                     /\ exitCalls' = exitCalls + 1
                                     /\ invoked' = Invocation("exit", exitCallback)
                                     /\ UNCHANGED running
                                ELSE /\ running' = FALSE
                                     /\ loop' = [loop EXCEPT ![t] = LoopAt("top")]
                                     /\ UNCHANGED <<exitCalls, invoked>>

\* A variant that does not report to the error callback.
CatchSilent(t, err) ==
    /\ loop' = [loop EXCEPT ![t] = LoopAt("backoff")]
    /\ UNCHANGED <<errCalls, errArg, invoked>>

\* catch (err) { ... if (errorCallback) errorCallback(error);
\*               await new Promise((r) => setTimeout(r, 2000)); }
\* An error callback that throws ends the loop task with that exception.
Catch(t, err) ==
    /\ IF errorCallback # NULL
       THEN /\ errCalls' = errCalls + 1
            /\ errArg' = err
            /\ invoked' = Invocation("error", errorCallback)
            /\ \E thrown \in BOOLEAN :
                 loop' = [loop EXCEPT ![t] = IF thrown THEN LoopAt("crashed")
                                                 ELSE LoopAt("backoff")]
       ELSE /\ loop' = [loop EXCEPT ![t] = LoopAt("backoff")]
            /\ UNCHANGED <<errCalls, errArg, invoked>>

\* The loop tasks in the order of their last answered poll, oldest first;
\* the tasks before t, and the order without t.
Before(order, t) ==
    {order[i] : i \in {j \in 1..Len(order) : \E k \in (j + 1)..Len(order) : order[k] = t}}
Without(order, t) == SelectSeq(order, LAMBDA u : u # t)

\* await messageCallback(body, sender) by task t, for an event of its last
\* poll: the tasks whose last poll was answered earlier are overtaken.
Overtake(t, base) ==
    overtaken' = IF loop'[t].pc = "msgcb" THEN base \cup Before(pollOrder', t) ELSE base

\* The history of one iteration (its last dispatch, its last insert, its
\* failure) is kept until the loop is back at while (running).
ForgetIteration ==
    /\ lastDispatch' = NO_DISPATCH
    /\ lastInsert' = NO_INSERT
    /\ dupSkipped' = FALSE
    /\ errArg' = "none"
    /\ invoked' = NO_INVOCATION
    /\ joined' = NO_ROOMS

\* An injected failure counts against the budget.
Fault ==
    /\ failures < MaxFailures
    /\ failures' = failures + 1

Init ==
    /\ config = NO_CONFIG
    /\ since = NULL
    /\ messageCallback = NULL
    /\ errorCallback = NULL
    /\ exitCallback = NULL
    /\ botUserId = NULL
    /\ running = FALSE
    /\ seen = <<>>
    /\ initPc = [c \in Calls |-> "idle"]
    /\ loop = [c \in Calls |-> LoopAt("none")]
    /\ shutdowns = 0
    /\ timeline = <<>>
    /\ failures = 0
    /\ signals = 0
    /\ errCalls = 0
    /\ errArg = "none"
    /\ failure = NO_FAILURE
    /\ lastDispatch = NO_DISPATCH
    /\ othersSince = [x \in EventIds |-> -1]
    /\ lastInsert = NO_INSERT
    /\ dupSkipped = FALSE
    /\ afterExit = {}
    /\ bootEvents = {}
    /\ lastNext = NULL
    /\ joined = NO_ROOMS
    /\ pollOrder = <<>>
    /\ overtaken = {}
    /\ exitDetected = FALSE
    /\ exitCalls = 0
    /\ latest = NO_CALLBACKS
    /\ invoked = NO_INVOCATION

\* ---------------------------------------------------------------- initAsync

\* initAsync(cfg) up to: botUserId = await whoamiAsync();
\* The calls are numbered in the order they are made.
InitAsync(c, cfg) ==
    /\ initPc[c] = "idle"
    /\ \A b \in Calls : b < c => initPc[b] # "idle"
    /\ config' = cfg
    /\ messageCallback' = IF cfg.onHumanMessage # NULL THEN cfg.onHumanMessage ELSE messageCallback
    /\ errorCallback' = IF cfg.onError # NULL THEN cfg.onError ELSE errorCallback
    /\ exitCallback' = IF cfg.onExit # NULL THEN cfg.onExit ELSE exitCallback
    /\ latest' = [message |-> IF cfg.onHumanMessage # NULL THEN cfg.onHumanMessage ELSE latest.message,
                  error |-> IF cfg.onError # NULL THEN cfg.onError ELSE latest.error,
                  exit |-> IF cfg.onExit # NULL THEN cfg.onExit ELSE latest.exit]
    /\ initPc' = [initPc EXCEPT ![c] = "whoami"]
    /\ UNCHANGED <<since, botUserId, running, seen, loop, shutdowns, timeline, failures,
                   signals, dispatchHist, otherHist, invoked>>

\* whoami answers; up to: const boot = await syncOnceAsync(undefined, 0);
WhoamiOk(c) ==
    /\ initPc[c] = "whoami"
    /\ botUserId' = Bot
    /\ initPc' = [initPc EXCEPT ![c] = "boot"]
    /\ UNCHANGED <<config, since, messageCallback, errorCallback, exitCallback,
                   running, seen, loop, shutdowns, timeline, failures, signals, histVars>>

\* whoami fails: initAsync rejects.
WhoamiFail(c) ==
    /\ initPc[c] = "whoami"
    /\ initPc' = [initPc EXCEPT ![c] = "failed"]
    /\ UNCHANGED <<moduleVars, loop, shutdowns, timeline, failures, signals, histVars>>

\* if (running) return; running = true; void syncLoopAsync();
\* and syncLoopAsync up to its first await: if (!config) return; while (running)
loopInBackground(c, token) ==
    IF running
    THEN UNCHANGED <<running, loop>>
    ELSE /\ running' = TRUE
         /\ loop' = [loop EXCEPT ![c] = IF config = NO_CONFIG THEN LoopAt("ended")
                                        ELSE WhileRunning(TRUE, token)]

\* The bootstrap sync answers: since = boot.next_batch; process.on("SIGTERM",
\* ...); process.on("SIGINT", ...); loopInBackground();
BootOk(c, next_batch) ==
    /\ initPc[c] = "boot"
    /\ since' = next_batch
    /\ bootEvents' = IdsOf(EventsAfter(NULL))
    /\ loopInBackground(c, since')
    /\ initPc' = [initPc EXCEPT ![c] = "done"]
    /\ UNCHANGED <<config, messageCallback, errorCallback, exitCallback, botUserId,
                   seen, shutdowns, timeline, failures, signals, errCalls, errArg,
                   failure, dispatchHist, lastNext, joined, pollOrder, overtaken,
                   exitCalls, latest, invoked>>

\* A variant that starts the loop although the bootstrap sync failed.
BootFailStartsLoop(c) ==
    /\ initPc[c] = "boot"
    /\ initPc' = [initPc EXCEPT ![c] = "failed"]
    /\ loopInBackground(c, since)
    /\ UNCHANGED <<config, since, messageCallback, errorCallback, exitCallback,
                   botUserId, seen, shutdowns, timeline, failures, signals, histVars>>

\* The bootstrap sync fails: initAsync rejects.
BootFail(c) ==
    /\ initPc[c] = "boot"
    /\ initPc' = [initPc EXCEPT ![c] = "failed"]
    /\ UNCHANGED <<moduleVars, loop, shutdowns, timeline, failures, signals, histVars>>

\* ------------------------------------------------------ the loop's actions

\* The loop task resumes at while (running) after an iteration without error.
LoopTop(t) ==
    /\ loop[t].pc = "top"
    /\ loop' = [loop EXCEPT ![t] = WhileRunning(running, since)]
    /\ ForgetIteration
    /\ UNCHANGED <<moduleVars, initPc, shutdowns, timeline, failures, signals, errCalls,
                   failure, othersSince, afterExit, bootEvents, lastNext, exitDetected,
                   pollOrder, overtaken,
                   exitCalls, latest>>

\* The poll answers with next_batch, n invitations and possibly the events
\* of another room: if (s.next_batch) since = s.next_batch; then the joins,
\* then the events of the configured room.
SyncOk(t, next_batch, n, others) ==
    LET s == SyncResponse(loop[t].cursor, next_batch, n, others)
        events == RoomEvents(s, config.roomId)
    IN  /\ loop[t].pc = "sync"
        /\ since' = AdoptCursor(since, s.next_batch)
        /\ lastNext' = IF Truthy(s.next_batch) THEN s.next_batch ELSE lastNext
        /\ joined' = s.join
        /\ failure' = NO_FAILURE
        /\ IF s.invite > 0
           THEN /\ loop' = [loop EXCEPT ![t] = [LoopAt("join") EXCEPT
                                                   !.invites = s.invite,
                                                   !.events = events]]
                /\ UNCHANGED <<seen, running, dispatchHist, exitCalls, invoked>>
           ELSE ProcessEvents(t, events)
        /\ pollOrder' = Append(Without(pollOrder, t), t)
        /\ Overtake(t, overtaken \ {t})
        /\ UNCHANGED <<config, messageCallback, errorCallback, exitCallback, botUserId,
                       initPc, shutdowns, timeline, failures, signals, errCalls, errArg,
                       bootEvents, latest>>

\* The poll fails (no answer, a non-2xx answer, an answer that is not the
\* expected JSON).
SyncFail(t, err) ==
    /\ loop[t].pc = "sync"
    /\ Fault
    /\ failure' = [err |-> err, cursor |-> loop[t].cursor]
    /\ Catch(t, err)
    /\ UNCHANGED <<moduleVars, initPc, shutdowns, timeline, signals, dispatchHist,
                   bootEvents, lastNext, joined, pollOrder, overtaken,
                   exitCalls, latest>>

\* await joinRoomAsync(rid) returns: the next invitation, or the events.
JoinOk(t) ==
    /\ loop[t].pc = "join"
    /\ IF loop[t].invites > 1
       THEN /\ loop' = [loop EXCEPT ![t].invites = loop[t].invites - 1]
            /\ UNCHANGED <<seen, running, dispatchHist, exitCalls, invoked>>
       ELSE ProcessEvents(t, loop[t].events)
    /\ UNCHANGED pollOrder
    /\ Overtake(t, overtaken)
    /\ UNCHANGED <<config, since, messageCallback, errorCallback, exitCallback,
                   botUserId, initPc, shutdowns, timeline, failures, signals, errCalls,
                   errArg, failure, bootEvents, lastNext, joined, latest>>

\* await joinRoomAsync(rid) throws.
JoinFail(t) ==
    /\ loop[t].pc = "join"
    /\ Fault
    /\ failure' = [err |-> "JoinError", cursor |-> NULL]
    /\ Catch(t, "JoinError")
    /\ UNCHANGED <<moduleVars, initPc, shutdowns, timeline, signals, dispatchHist,
                   bootEvents, lastNext, joined, pollOrder, overtaken,
                   exitCalls, latest>>

\* await messageCallback(body, sender) returns: on with the for loop.
MessageCallbackReturn(t) ==
    /\ loop[t].pc = "msgcb"
    /\ ProcessEvents(t, loop[t].events)
    /\ UNCHANGED pollOrder
    /\ Overtake(t, overtaken)
    /\ UNCHANGED <<config, since, messageCallback, errorCallback, exitCallback,
                   botUserId, initPc, shutdowns, timeline, failures, signals, errCalls,
                   errArg, failure, bootEvents, lastNext, joined, latest>>

\* A variant that swallows the callback's exception and goes on with the
\* batch.
MessageCallbackSwallow(t) ==
    /\ loop[t].pc = "msgcb"
    /\ Fault
    /\ failure' = [err |-> "CallbackError", cursor |-> NULL]
    /\ ProcessEvents(t, loop[t].events)
    /\ UNCHANGED pollOrder
    /\ Overtake(t, overtaken)
    /\ UNCHANGED <<config, since, messageCallback, errorCallback, exitCallback,
                   botUserId, initPc, shutdowns, timeline, signals, errCalls,
                   errArg, bootEvents, lastNext, joined, latest>>

\* await messageCallback(body, sender) throws.
MessageCallbackThrow(t) ==
    /\ loop[t].pc = "msgcb"
    /\ Fault
    /\ failure' = [err |-> "CallbackError", cursor |-> NULL]
    /\ Catch(t, "CallbackError")
    /\ UNCHANGED <<moduleVars, initPc, shutdowns, timeline, signals, dispatchHist,
                   bootEvents, lastNext, joined, pollOrder, overtaken,
                   exitCalls, latest>>

\* handleExitAsync: await exitCallback() returns; stop(); and back in
\* processEventsAsync: return;
ExitCallbackReturn(t) ==
    /\ loop[t].pc = "exitcb"
    /\ running' = FALSE
    /\ loop' = [loop EXCEPT ![t] = LoopAt("top")]
    /\ UNCHANGED <<config, since, messageCallback, errorCallback, exitCallback,
                   botUserId, seen, initPc, shutdowns, timeline, failures, signals,
                   histVars>>

\* handleExitAsync: await exitCallback() throws, and stop() is not reached.
ExitCallbackThrow(t) ==
    /\ loop[t].pc = "exitcb"
    /\ Fault
    /\ failure' = [err |-> "CallbackError", cursor |-> NULL]
    /\ Catch(t, "CallbackError")
    /\ UNCHANGED <<moduleVars, initPc, shutdowns, timeline, signals, dispatchHist,
                   bootEvents, lastNext, joined, pollOrder, overtaken,
                   exitCalls, latest>>

\* The back-off timer fires: back to while (running).
BackoffDone(t) ==
    /\ loop[t].pc = "backoff"
    /\ loop' = [loop EXCEPT ![t] = WhileRunning(running, since)]
    /\ ForgetIteration
    /\ UNCHANGED <<moduleVars, initPc, shutdowns, timeline, failures, signals, errCalls,
                   failure, othersSince, afterExit, bootEvents, lastNext, exitDetected,
                   pollOrder, overtaken,
                   exitCalls, latest>>

\* -------------------------------------------------------------- termination

\* export const stop = (): void => { running = false; };
Stop ==
    /\ running' = FALSE
    /\ UNCHANGED <<config, since, messageCallback, errorCallback, exitCallback,
                   botUserId, seen, initPc, loop, shutdowns, timeline, failures,
                   signals, histVars>>

\* The handlers process.on has registered for a signal: one per initAsync call
\* that went past its bootstrap.
Handlers == Cardinality({c \in Calls : initPc[c] = "done"})

\* SIGTERM or SIGINT is delivered: each handler runs void shutdownAsync(), up
\* to its await exitCallback(), or through stop() when no exit callback is
\* registered.
Signal ==
    /\ Handlers > 0
    /\ signals < MaxSignals
    /\ signals' = signals + 1
    /\ IF exitCallback # NULL
       THEN /\ shutdowns' = shutdowns + Handlers
            /\ exitCalls' = exitCalls + Handlers
            /\ invoked' = Invocation("exit", exitCallback)
            /\ UNCHANGED running
       ELSE /\ running' = FALSE
            /\ UNCHANGED <<shutdowns, exitCalls, invoked>>
    /\ UNCHANGED <<config, since, messageCallback, errorCallback, exitCallback,
                   botUserId, seen, initPc, loop, timeline, failures, errCalls, errArg,
                   failure, dispatchHist, bootEvents, lastNext, joined, pollOrder,
                   overtaken, latest>>

\* shutdownAsync: await exitCallback() returns; stop();
ShutdownCallbackReturn ==
    /\ shutdowns > 0
    /\ shutdowns' = shutdowns - 1
    /\ running' = FALSE
    /\ UNCHANGED <<config, since, messageCallback, errorCallback, exitCallback,
                   botUserId, seen, initPc, loop, timeline, failures, signals, histVars>>

\* shutdownAsync: await exitCallback() throws: the promise of void
\* shutdownAsync() is rejected and stop() is not reached.
ShutdownCallbackThrow ==
    /\ shutdowns > 0
    /\ Fault
    /\ shutdowns' = shutdowns - 1
    /\ UNCHANGED <<moduleVars, initPc, loop, timeline, signals, histVars>>

\* ------------------------------------------------------ the other operations

\* A variant that keeps a callback that is already registered.
onHumanMessageOnce(callback) ==
    /\ messageCallback' = IF messageCallback = NULL THEN callback ELSE messageCallback
    /\ latest' = [latest EXCEPT !.message = callback]
    /\ UNCHANGED <<config, since, errorCallback, exitCallback, botUserId, running,
                   seen, initPc, loop, shutdowns, timeline, failures, signals,
                   dispatchHist, otherHist, invoked>>

\* export const onHumanMessage = (callback) => { messageCallback = callback; };
onHumanMessage(callback) ==
    /\ messageCallback' = callback
    /\ latest' = [latest EXCEPT !.message = callback]
    /\ UNCHANGED <<config, since, errorCallback, exitCallback, botUserId, running,
                   seen, initPc, loop, shutdowns, timeline, failures, signals,
                   dispatchHist, otherHist, invoked>>

\* export const onError = (callback) => { errorCallback = callback; };
onError(callback) ==
    /\ errorCallback' = callback
    /\ latest' = [latest EXCEPT !.error = callback]
    /\ UNCHANGED <<config, since, messageCallback, exitCallback, botUserId, running,
                   seen, initPc, loop, shutdowns, timeline, failures, signals,
                   dispatchHist, otherHist, invoked>>

\* export const onExit = (callback) => { exitCallback = callback; };
onExit(callback) ==
    /\ exitCallback' = callback
    /\ latest' = [latest EXCEPT !.exit = callback]
    /\ UNCHANGED <<config, since, messageCallback, errorCallback, botUserId, running,
                   seen, initPc, loop, shutdowns, timeline, failures, signals,
                   dispatchHist, otherHist, invoked>>

\* sendMessageAsync(message): if (!config) throw ...; the PUT posts a text
\* message of the bot to the room.
sendMessageAsync(message) ==
    /\ config # NO_CONFIG
    /\ Len(timeline) < MaxTimeline
    /\ timeline' = Append(timeline,
                          MatrixEvent(EventIdOf(Len(timeline) + 1), "m.room.message",
                                      Bot, "m.text", message))
    /\ UNCHANGED <<moduleVars, initPc, loop, shutdowns, failures, signals, histVars>>

\* ----------------------------------------------------------- specifications

\* One session: one call of initAsync, the loop it starts, stop().
Next ==
    \/ \E cfg \in Configs : InitAsync(1, cfg)
    \/ WhoamiOk(1)
    \/ WhoamiFail(1)
    \/ \E next_batch \in NextBatches : BootOk(1, next_batch)
    \/ BootFail(1)
    \/ LoopTop(1)
    \/ \E next_batch \in NextBatches, n \in 0..MaxInvites : SyncOk(1, next_batch, n, FALSE)
    \/ \E err \in {"TransportError", "MalformedResponseError"} : SyncFail(1, err)
    \/ JoinOk(1)
    \/ JoinFail(1)
    \/ MessageCallbackReturn(1)
    \/ MessageCallbackThrow(1)
    \/ ExitCallbackReturn(1)
    \/ ExitCallbackThrow(1)
    \/ BackoffDone(1)
    \/ Stop
    \/ \E shape \in Shapes : Send(shape)

Spec == Init /\ [][Next]_vars

\* What the configured human posts.
HumanShapes == {sh \in Shapes : sh.sender = Human}

\* The configurations with an error callback.
LifeConfigs == {cfg \in Configs : cfg.onError # NULL}

\* The whole process: every call of initAsync and the loop task it starts,
\* stop(), the signals and sendMessageAsync, in any interleaving; the
\* homeserver answers every request, with a next_batch and without
\* invitations.
NextLife ==
    \/ \E c \in Calls, cfg \in LifeConfigs : InitAsync(c, cfg)
    \/ \E c \in Calls : WhoamiOk(c)
    \/ \E c \in Calls : BootOk(c, TokenOf(Len(timeline)))
    \/ \E t \in Calls : LoopTop(t)
    \/ \E t \in Calls : SyncOk(t, TokenOf(Len(timeline)), 0, FALSE)
    \/ \E t \in Calls : MessageCallbackReturn(t)
    \/ \E t \in Calls : ExitCallbackReturn(t)
    \/ Stop
    \/ Signal
    \/ ShutdownCallbackReturn
    \/ ShutdownCallbackThrow
    \/ sendMessageAsync(HI)
    \/ \E shape \in HumanShapes : Send(shape)

SpecLife == Init /\ [][NextLife]_vars

\* The configuration with the message callback only, and the human's plain
\* message.
OrderConfigs == {cfg \in Configs : cfg.onError = NULL /\ cfg.onExit = NULL}
OrderShapes == {sh \in HumanShapes : sh.hasId /\ sh.type = "m.room.message" /\ sh.body = HI}

\* The calls of initAsync and stop() with the loop tasks they start, while the
\* human writes: the homeserver answers every request, with a next_batch and
\* with or without invitations.
NextOrder ==
    \/ \E c \in Calls, cfg \in OrderConfigs : InitAsync(c, cfg)
    \/ \E c \in Calls : WhoamiOk(c)
    \/ \E c \in Calls : BootOk(c, TokenOf(Len(timeline)))
    \/ \E t \in Calls : LoopTop(t)
    \/ \E t \in Calls, n \in 0..MaxInvites : SyncOk(t, TokenOf(Len(timeline)), n, FALSE)
    \/ \E t \in Calls : JoinOk(t)
    \/ \E t \in Calls : MessageCallbackReturn(t)
    \/ Stop
    \/ \E shape \in OrderShapes : Send(shape)

SpecOrder == Init /\ [][NextOrder]_vars

\* A configuration without callbacks and one with the three of them.
CallbackConfigs ==
    { [roomId |-> TargetRoom, humanUserId |-> Human, onHumanMessage |-> NULL,
       onError |-> NULL, onExit |-> NULL],
      [roomId |-> TargetRoom, humanUserId |-> Human,
       onHumanMessage |-> "cfg.onHumanMessage", onError |-> "cfg.onError",
       onExit |-> "cfg.onExit"] }

\* The callbacks and their dispatch: initAsync with any callbacks, the
\* setters at any time, and a loop whose polls are answered (with what the
\* human has posted, without invitations) or fail, and a signal.
NextCallbacks ==
    \/ \E cfg \in CallbackConfigs : InitAsync(1, cfg)
    \/ WhoamiOk(1)
    \/ BootOk(1, TokenOf(Len(timeline)))
    \/ LoopTop(1)
    \/ SyncOk(1, TokenOf(Len(timeline)), 0, FALSE)
    \/ SyncFail(1, "TransportError")
    \/ MessageCallbackReturn(1)
    \/ ExitCallbackReturn(1)
    \/ BackoffDone(1)
    \/ Signal
    \/ ShutdownCallbackReturn
    \/ onHumanMessage("set.onHumanMessage")
    \/ onError("set.onError")
    \/ onExit("set.onExit")
    \/ \E shape \in HumanShapes : Send(shape)

SpecCallbacks == Init /\ [][NextCallbacks]_vars

\* ------------------------------------------- the filter on arbitrary events

\* Every event a MatrixEvent can be, over the values the filter tells apart.
AnyEvents(id) ==
    { MatrixEvent(i, t, sn, mt, b) :
        i \in {id, NULL},
        t \in {"m.room.message", "m.room.member"},
        sn \in {Human, Bot, Other, NULL},
        mt \in {"m.text", "m.image", NULL},
        b \in {HI, EXIT, EXIT_UPPER, EXIT_MIXED, <<>>, NO_BODY} }

\* The timelines of the filter's specification: any event, and after it
\* possibly one that a human can post.
AnyTimelines ==
    { <<e>> : e \in AnyEvents(EventIdOf(1)) }
    \cup { <<e, MatrixEvent(EventIdOf(2), sh.type, sh.sender, sh.msgtype, sh.body)>> :
             e \in AnyEvents(EventIdOf(1)), sh \in Shapes }

AnyConfigs ==
    [roomId : {TargetRoom},
     humanUserId : {Human, Bot},
     onHumanMessage : {NULL, "cfg.onHumanMessage"},
     onError : {"cfg.onError"},
     onExit : {NULL, "cfg.onExit"}]

\* The program after initAsync(cfg) with a bootstrap answer of next_batch
\* "s0", its first poll in flight, and a timeline of any events.
InitFilter ==
    /\ config \in AnyConfigs
    /\ since = TokenOf(0)
    /\ messageCallback = config.onHumanMessage
    /\ errorCallback = config.onError
    /\ exitCallback = config.onExit
    /\ botUserId = Bot
    /\ running = TRUE
    /\ seen = <<>>
    /\ initPc = [c \in Calls |-> IF c = 1 THEN "done" ELSE "idle"]
    /\ loop = [c \in Calls |-> IF c = 1 THEN WhileRunning(TRUE, since) ELSE LoopAt("none")]
    /\ shutdowns = 0
    /\ timeline \in AnyTimelines
    /\ failures = 0
    /\ signals = 0
    /\ errCalls = 0
    /\ errArg = "none"
    /\ failure = NO_FAILURE
    /\ lastDispatch = NO_DISPATCH
    /\ othersSince = [x \in EventIds |-> -1]
    /\ lastInsert = NO_INSERT
    /\ dupSkipped = FALSE
    /\ afterExit = {}
    /\ bootEvents = {}
    /\ lastNext = NULL
    /\ joined = NO_ROOMS
    /\ pollOrder = <<>>
    /\ overtaken = {}
    /\ exitDetected = FALSE
    /\ exitCalls = 0
    /\ latest = [message |-> config.onHumanMessage, error |-> config.onError,
                 exit |-> config.onExit]
    /\ invoked = NO_INVOCATION

NextFilter ==
    \/ \E next_batch \in NextBatches, n \in 0..MaxInvites, others \in BOOLEAN :
          SyncOk(1, next_batch, n, others)
    \/ JoinOk(1)
    \/ MessageCallbackReturn(1)
    \/ ExitCallbackReturn(1)
    \/ LoopTop(1)

SpecFilter == InitFilter /\ [][NextFilter]_vars

\* ------------------------------------------------------------------ claims

PollErrors == {"TransportError", "MalformedResponseError"}

\* C1 (as stated): an identifier is dispatched (to the message callback or
\* as the exit signal) again only when more than MAX_SEEN other new
\* identifiers were recorded since it was dispatched last.
C1_DedupUpToCapacityOthers ==
    lastDispatch.kind # "none" =>
        (lastDispatch.gap = -1 \/ lastDispatch.gap > MAX_SEEN)

\* C1 (amended): an identifier is dispatched again only when at least
\* MAX_SEEN other new identifiers were recorded since it was dispatched last:
\* with fewer than MAX_SEEN others in between it is dispatched at most once.
C1_DedupBelowCapacityOthers ==
    lastDispatch.kind # "none" =>
        (lastDispatch.gap = -1 \/ lastDispatch.gap >= MAX_SEEN)

\* A poll has returned an identifier that was dispatched before, and the
\* filter has skipped it as seen.
C1_Witness ==
    /\ dupSkipped
    /\ loop[1].pc = "top"
    /\ lastDispatch.kind = "none"

\* C2: a loop poll that is in flight carries the next_batch of the last loop
\* poll that returned one, whatever failed while that batch was processed.
C2_CursorAdoption ==
    (loop[1].pc = "sync" /\ lastNext # NULL) => loop[1].cursor = lastNext

\* The poll after a batch during which the message callback threw.
C2_Witness ==
    /\ loop[1].pc = "sync"
    /\ failure.err = "CallbackError"
    /\ lastNext # NULL
    /\ loop[1].cursor = lastNext

\* C3 (as stated): no event that followed an exit command in its batch is
\* ever passed to the message callback.
C3_ExitShortCircuit ==
    lastDispatch.kind = "msg" => lastDispatch.ev.event_id \notin afterExit

C8_Step ==
    /\ (loop[1].pc = "sync" /\ loop'[1].pc \in {"backoff", "crashed"}) =>
          /\ since' = since
          /\ errCalls' = errCalls + (IF errorCallback # NULL THEN 1 ELSE 0)
          /\ errorCallback # NULL => errArg' = failure'.err
    /\ (loop[1].pc = "backoff" /\ failure.err \in PollErrors /\ loop'[1] # loop[1]) =>
          IF running
          THEN loop'[1].pc = "sync" /\ loop'[1].cursor = failure.cursor
          ELSE loop'[1].pc = "ended"

C8_PollFailureRetry == [][C8_Step]_vars

\* The poll that follows a failed and reported poll, with its cursor.
C8_Witness ==
    /\ loop[1].pc = "sync"
    /\ failure.err = "TransportError"
    /\ loop[1].cursor = failure.cursor
    /\ loop[1].cursor # NULL
    /\ errCalls = 1
    /\ errArg = "none"

\* C9 (as stated): no callback fires and nothing is recorded before the
\* bootstrap has ended, and no event of the bootstrap answer is ever
\* dispatched.
C9_BootstrapDiscardsBacklog ==
    /\ initPc[1] \in {"idle", "whoami", "boot"} =>
          (lastDispatch = NO_DISPATCH /\ errCalls = 0 /\ seen = <<>> /\ loop[1].pc = "none")
    /\ lastDispatch.kind # "none" => lastDispatch.ev.event_id \notin bootEvents

\* C10 (as stated): once an exit command is detected and the exit callback,
\* if any, is over, running is false and the loop issues no poll.
C10_ExitStopsLoop ==
    exitDetected =>
        (loop[1].pc = "exitcb" \/ (~running /\ loop[1].pc \in {"top", "ended"}))

ExitSpellings == {EXIT, EXIT_UPPER, EXIT_MIXED}

\* The last event the filter recorded is a text message of the configured
\* human with an exit command in some letter case.
IsHumanExit(ev) ==
    /\ ev # NO_EVENT
    /\ ev.type = "m.room.message"
    /\ ev.msgtype = "m.text"
    /\ ev.sender = config.humanUserId
    /\ ev.body \in ExitSpellings

\* C4 (as stated): a new text message of the configured human whose body is
\* "exit" in any letter case takes the exit path and is never given to the
\* message callback.
C4_ExitAnyCase ==
    /\ IsHumanExit(lastInsert.ev) =>
          (lastDispatch.kind = "exit" /\ lastDispatch.ev = lastInsert.ev)
    /\ lastDispatch.kind = "msg" => lastDispatch.ev.body \notin ExitSpellings

\* C4 (amended): the same, for a message whose sender is not the bot's own
\* identity.
C4_ExitAnyCaseNotSelf ==
    /\ (IsHumanExit(lastInsert.ev) /\ lastInsert.ev.sender # botUserId) =>
          (lastDispatch.kind = "exit" /\ lastDispatch.ev = lastInsert.ev)
    /\ lastDispatch.kind = "msg" => lastDispatch.ev.body \notin ExitSpellings

\* "EXIT" of the human has taken the exit path.
C4_Witness ==
    /\ lastDispatch.kind = "exit"
    /\ lastDispatch.ev.body = EXIT_UPPER
    /\ lastDispatch.ev.sender = Human

\* C5: whatever is given to the message callback or taken as the exit signal
\* has the configured human as its sender.
C5_SenderFilter ==
    lastDispatch.kind # "none" => lastDispatch.ev.sender = config.humanUserId

\* A text message "exit" of somebody else has gone through the filter and
\* nothing was dispatched.
C5_Witness ==
    /\ loop[1].pc = "top"
    /\ lastInsert.ev.sender = Other
    /\ lastInsert.ev.type = "m.room.message"
    /\ lastInsert.ev.msgtype = "m.text"
    /\ lastInsert.ev.body = EXIT
    /\ config.humanUserId = Human
    /\ lastDispatch.kind = "none"
    /\ running

\* C6: whatever is given to the message callback or taken as the exit signal
\* does not have the bot as its sender.
C6_SelfEcho ==
    lastDispatch.kind # "none" => lastDispatch.ev.sender # botUserId

\* The configured human is the bot itself, a text message "exit" of the bot
\* has gone through the filter and nothing was dispatched.
C6_Witness ==
    /\ loop[1].pc = "top"
    /\ config.humanUserId = botUserId
    /\ lastInsert.ev.sender = botUserId
    /\ lastInsert.ev.type = "m.room.message"
    /\ lastInsert.ev.msgtype = "m.text"
    /\ lastInsert.ev.body = EXIT
    /\ lastDispatch.kind = "none"
    /\ running

\* The loop tasks that are alive: started, and neither ended nor crashed.
AliveLoops == {t \in Calls : loop[t].pc \notin {"none", "ended", "crashed"}}

\* The callback invocations in progress: the message and exit callbacks the
\* loop tasks await, and the exit callbacks the shutdownAsync tasks await.
CallbacksInProgress ==
    Cardinality({t \in Calls : loop[t].pc \in {"msgcb", "exitcb"}}) + shutdowns

C11_Step ==
    /\ shutdowns' < shutdowns => ~running'
    /\ (running /\ ~running' /\ exitCallback # NULL) => exitCalls' > 0

\* C11 (as stated): a termination request that arrives while the session is
\* Running ends with the session Stopped (the shutdownAsync task of a signal,
\* when it is over, leaves running false), and the session does not go from
\* Running to Stopped, with an exit callback registered, without the exit
\* callback having been invoked.
C11_ExternalTermination == [][C11_Step]_vars

C12_Step ==
    /\ (~running /\ signals' > signals) =>
          (exitCalls' = exitCalls /\ shutdowns' = shutdowns /\ UNCHANGED moduleVars)
    /\ exitCalls' <= 1

\* C12 (as stated): a signal that arrives when the session is Stopped changes
\* no session state and does not invoke the exit callback, and the exit
\* callback is invoked at most once in the life of the process.
C12_IdempotentTermination == [][C12_Step]_vars

\* C13 (as stated): running goes from false to true only when no loop task
\* has been started before, that is at most once, and never again after it
\* went back to false.
C13_RunningOnce ==
    [][(~running /\ running') => \A t \in Calls : loop[t].pc = "none"]_vars

\* C14 (as stated): at most one loop task is alive at any time.
C14_SingleLoop == Cardinality(AliveLoops) <= 1

\* C17 (as stated): at most one callback invocation is in progress at any
\* time.
C17_SequentialDispatch == CallbacksInProgress <= 1

\* C15 (as stated): no exception escapes a loop task, and a loop task ends
\* only when running is false.
C15_NoFatalError ==
    \A t \in Calls :
        /\ loop[t].pc # "crashed"
        /\ loop[t].pc = "ended" => ~running

C16_Step ==
    \A t \in Calls :
        (loop[t].pc = "join" /\ failures' > failures /\ loop'[t] # loop[t]) =>
            loop'[t].pc \in {"join", "msgcb", "exitcb", "top"}

\* C16 (as stated): after a join that fails the iteration goes on: with the
\* next invited room, or with the events of the poll response.
C16_JoinFailureContinues == [][C16_Step]_vars

C19_Step ==
    \A t \in Calls :
        /\ (loop[t].pc = "msgcb" /\ failures' > failures /\ loop'[t] # loop[t]) =>
              /\ loop'[t].pc \in {"backoff", "crashed"}
              /\ loop'[t].events = <<>>
              /\ lastDispatch' = lastDispatch
              /\ seen' = seen
              /\ errCalls' = errCalls + (IF errorCallback # NULL THEN 1 ELSE 0)
              /\ errorCallback # NULL => errArg' = "CallbackError"
              /\ running' = running
        /\ (loop[t].pc = "backoff" /\ failure.err = "CallbackError" /\ loop'[t] # loop[t]) =>
              /\ lastDispatch' = NO_DISPATCH
              /\ IF running
                 THEN loop'[t].pc = "sync" /\ loop'[t].cursor = SinceParam(since)
                 ELSE loop'[t].pc = "ended"

\* C19: when the message callback throws, the rest of the batch is dropped
\* (nothing more of it is recorded or dispatched), the error is reported once
\* to the error callback if one is registered, running is left alone, and the
\* loop, back from the pause and still running, issues the next poll.
C19_CallbackErrorPolicy == [][C19_Step]_vars

\* The message callback threw on the first of two events of a batch: the
\* loop is in its pause, the error reported, the second event not recorded.
C19_Witness ==
    /\ loop[1].pc = "backoff"
    /\ failure.err = "CallbackError"
    /\ lastDispatch.kind = "msg"
    /\ lastDispatch.ev.event_id = EventIdOf(1)
    /\ since = TokenOf(2)
    /\ seen = <<EventIdOf(1)>>
    /\ errCalls = 1
    /\ running

C20_Step ==
    \A t \in Calls :
        /\ (~running' /\ loop'[t].pc = "sync") => loop'[t] = loop[t]
        /\ (~running /\ loop[t].pc \in {"top", "backoff"} /\ loop'[t] # loop[t]) =>
              loop'[t].pc = "ended"

\* C20: with running cleared no loop task issues a poll (a poll in flight is
\* left to return), and a loop task that comes back to while (running) from
\* its batch or from its pause ends there.
C20_CooperativeCancellation == [][C20_Step]_vars

\* stop() was called while a poll was in flight or a batch in the works, and
\* the loop task has ended at while (running) without an exit command.
C20_Witness ==
    /\ loop[1].pc = "ended"
    /\ ~running
    /\ ~exitDetected
    /\ lastNext # NULL
    /\ lastDispatch = NO_DISPATCH

C18_Step ==
    /\ invoked'.slot # "none" => invoked'.cb = invoked'.latest
    /\ (latest' # latest /\ initPc' = initPc) => UNCHANGED <<since, running, seen>>

\* C18: a callback that is invoked is the one registered last for its slot,
\* by initAsync's configuration or by the slot's setter; and a setter leaves
\* the cursor, the running flag and the dedup window alone.
C18_LatestRegistrationWins == [][C18_Step]_vars

\* The message callback a setter registered after initAsync had registered
\* the configuration's is the one a message is dispatched to.
C18_Witness ==
    /\ invoked.slot = "message"
    /\ invoked.cb = "set.onHumanMessage"
    /\ config # NO_CONFIG
    /\ config.onHumanMessage = "cfg.onHumanMessage"
    /\ loop[1].pc = "msgcb"

C23_Step ==
    /\ initPc'[1] = "failed" =>
          /\ ~running'
          /\ loop'[1].pc = "none"
          /\ Handlers' = 0
          /\ since' = NULL
          /\ errCalls' = 0
          /\ exitCalls' = 0
          /\ lastDispatch' = NO_DISPATCH
          /\ invoked' = NO_INVOCATION
          /\ seen' = <<>>
    /\ initPc[1] = "failed" => initPc'[1] = "failed"

\* C23: when whoami or the bootstrap sync of the session's initAsync fails,
\* the call is rejected and stays so (nothing retries it): running is false,
\* no loop task is started and no cursor adopted, no signal handler is
\* registered, and no callback has been invoked.
C23_StartupFailure == [][C23_Step]_vars

\* The bootstrap sync failed, after whoami had answered, with a message of
\* the human in the room and callbacks registered.
C23_Witness ==
    /\ initPc[1] = "failed"
    /\ botUserId = Bot
    /\ Len(timeline) > 0
    /\ errorCallback # NULL
    /\ exitCallback # NULL

\* The events task t is working through in this step: the target room's
\* events of the answer it takes, or what is left of its batch.
C21_Pending(t) ==
    IF loop[t].pc = "sync"
    THEN (IF TargetRoom \in DOMAIN joined' THEN joined'[TargetRoom] ELSE <<>>)
    ELSE loop[t].events

C21_Step ==
    \A t \in Calls :
        (loop'[t].pc = "msgcb" /\ loop'[t] # loop[t]) =>
            /\ \E i \in 1..Len(C21_Pending(t)) :
                  /\ C21_Pending(t)[i] = lastDispatch'.ev
                  /\ loop'[t].events = SubSeq(C21_Pending(t), i + 1, Len(C21_Pending(t)))
            /\ t \notin overtaken

\* C21 (as stated): the message callback receives the events of a batch in
\* the order of the poll response (each dispatched event is taken from what
\* is left of the batch, and what is before it is dropped), and no event of
\* an earlier poll is dispatched after an event of a later poll.
C21_OrderedDispatch == [][C21_Step]_vars

\* The events listed under the target room in the iteration's answer.
C22_TargetEvents ==
    IF TargetRoom \in DOMAIN joined
    THEN {joined[TargetRoom][i] : i \in 1..Len(joined[TargetRoom])}
    ELSE {}

\* C22: only the events listed under the configured room in the poll
\* response are filtered and dispatched: what was recorded and what was
\* dispatched in the iteration is one of them, the other room's event is
\* never in the dedup window and never reaches a callback, and an answer
\* without the target room leaves nothing recorded, nothing dispatched and
\* no callback awaited.
C22_TargetRoomOnly ==
    /\ ~Has(seen, OtherEventId)
    /\ othersSince[OtherEventId] = -1
    /\ lastInsert # NO_INSERT => lastInsert.ev \in C22_TargetEvents
    /\ lastDispatch # NO_DISPATCH => lastDispatch.ev \in C22_TargetEvents
    /\ loop[1].pc \in {"msgcb", "exitcb"} => lastDispatch.ev \in C22_TargetEvents
    /\ TargetRoom \notin DOMAIN joined =>
          /\ lastInsert = NO_INSERT
          /\ lastDispatch = NO_DISPATCH
          /\ invoked = NO_INVOCATION
          /\ loop[1].pc \notin {"msgcb", "exitcb"}

\* An answer with both rooms, an event of the target room dispatched.
C22_Witness ==
    /\ OtherRoom \in DOMAIN joined
    /\ TargetRoom \in DOMAIN joined
    /\ loop[1].pc = "msgcb"
    /\ lastDispatch.kind = "msg"
    /\ seen # <<>>

====
